---- MODULE Spec2Model ----
(***************************************************************************)
(* Model of the permission utilities (utils/permissions), of the booking    *)
(* controller and of the events controller of generic-backend.              *)
(*                                                                          *)
(* An optional value (undefined / null in the source) is a sequence of      *)
(* length 0 or 1: None is << >>, Some(x) is << x >>.                         *)
(***************************************************************************)
EXTENDS Integers, Sequences, FiniteSets, TLC

VARIABLES
    level,      \* the catalog's level of each named permission (Permissions.X.level)
    call,       \* a call of a pure function: its name and arguments
    ret,        \* the value that call returned, once it has returned
    pc,         \* position of the request handler
    req,        \* the request a controller method was called with
    claims,     \* the JWT claims verifyToken resolved to
    event,      \* the event fetched by eventsService.findByUUID
    clock,      \* the instant DateTime.local() returned to canBookNow
    found,      \* the list a find-all call of a persistence service resolved to
    failure,    \* the awaited call that rejected, with the error a catch block caught
    resp,       \* the responses the method resolved to
    calls,      \* the collaborator calls made, in order
    logged,     \* the errors handed to loggingService.error, in order
    store,      \* the event the persistence layer holds, when requests run concurrently
    handlers,   \* the state of each of the concurrent request handlers
    applied     \* the mutations the persistence layer applied, in order

vars ==
    << level, call, ret, pc, req, claims, event, clock, found, failure, resp, calls, logged,
       store, handlers, applied >>

pureVars == << call, ret >>
ctrlVars == << pc, req, claims, event, clock, found, failure, resp, calls, logged >>
storeVars == << store, handlers, applied >>

\* ------------------------------------------------------------------ bounds

MaxLevel == 2
MaxTime == 2
MaxList == 2

\* --------------------------------------------------------- optional values

None == << >>
Some(x) == << x >>
IsSet(o) == o # << >>
Get(o) == o[1]

\* ------------------------------------------------------- permission model

PermissionNames == {"ALL", "MANAGE_PERMISSIONS", "ADD_USER", "MANAGE_EVENTS", "MANAGE_BOOKINGS"}

BDEs == {"bde1", "bde2"}

Levels == 0 .. MaxLevel

SetMax(S) == CHOOSE m \in S : \A x \in S : x <= m

\* Math.max(0, ...user.permissions.map(p => p.level))
findPermissionLevel(user) == SetMax({0} \cup {level[p] : p \in user.permissions})

\* canManagePermissions without the same-BDE gate
canManagePermissions_NoBdeGate(source, target) ==
    IF "ALL" \in source.permissions /\ "ALL" \notin target.permissions THEN TRUE
    ELSE IF "MANAGE_PERMISSIONS" \notin source.permissions THEN FALSE
    ELSE findPermissionLevel(source) > findPermissionLevel(target)

\* canManagePermissions comparing the levels with >= instead of >
canManagePermissions_NotStrict(source, target) ==
    IF "ALL" \in source.permissions /\ "ALL" \notin target.permissions THEN TRUE
    ELSE IF "MANAGE_PERMISSIONS" \notin source.permissions THEN FALSE
    ELSE IF source.bdeUUID # target.bdeUUID THEN FALSE
    ELSE findPermissionLevel(source) >= findPermissionLevel(target)

canManagePermissions(source, target) ==
    IF "ALL" \in source.permissions /\ "ALL" \notin target.permissions THEN TRUE
    ELSE IF "MANAGE_PERMISSIONS" \notin source.permissions THEN FALSE
    ELSE IF source.bdeUUID # target.bdeUUID THEN FALSE
    ELSE findPermissionLevel(source) > findPermissionLevel(target)

\* canAddUser without the same-BDE gate
canAddUser_AnyBde(source, bdeUUID) ==
    IF "ALL" \in source.permissions THEN TRUE
    ELSE "ADD_USER" \in source.permissions

canAddUser(source, bdeUUID) ==
    IF "ALL" \in source.permissions THEN TRUE
    ELSE IF "ADD_USER" \notin source.permissions THEN FALSE
    ELSE source.bdeUUID = bdeUUID

\* canManageEvents(user, bdeUUID) of utils/permissions
canManageEvents(user, bdeUUID) ==
    IF "ALL" \in user.permissions THEN TRUE
    ELSE IF "MANAGE_EVENTS" \notin user.permissions THEN FALSE
    ELSE user.bdeUUID = bdeUUID

\* canManageBooking(user, { userUUID, bdeUUID }) of utils/permissions
canManageBooking(user, booking) ==
    IF "ALL" \in user.permissions THEN TRUE
    ELSE IF user.uuid = booking.userUUID THEN TRUE
    ELSE IF "MANAGE_BOOKINGS" \notin user.permissions THEN FALSE
    ELSE user.bdeUUID = booking.bdeUUID

\* ------------------------------------------------------------------ events

Instants == 0 .. MaxTime

OptInstants == {None} \cup {Some(t) : t \in Instants}

EventUUIDs == {"e1"}

\* Event of models: bookingStart, bookingEnd and eventDate are optional DateTime.
\* The events the persistence layer holds satisfy the data model's ordering.
Events ==
    {e \in [eventUUID : EventUUIDs, bdeUUID : BDEs, eventName : {"gala"}, isDraft : BOOLEAN,
            bookingStart : OptInstants, bookingEnd : OptInstants, eventDate : {None}] :
        IsSet(e.bookingStart) /\ IsSet(e.bookingEnd)
            => Get(e.bookingStart) < Get(e.bookingEnd)}

\* canBookNow with a half-open window: the bounds themselves are not bookable
canBookNow_OpenWindow(ev, now) ==
    IF IsSet(ev.bookingStart) /\ Get(ev.bookingStart) >= now THEN FALSE
    ELSE IF IsSet(ev.bookingEnd) /\ Get(ev.bookingEnd) <= now THEN FALSE
    ELSE TRUE

\* BookingsController.canBookNow, with the value DateTime.local() returned
canBookNow(ev, now) ==
    IF IsSet(ev.bookingStart) /\ Get(ev.bookingStart) > now THEN FALSE
    ELSE IF IsSet(ev.bookingEnd) /\ Get(ev.bookingEnd) < now THEN FALSE
    ELSE TRUE

\* ------------------------------------------ the pure functions, called alone

\* The permissions the users passed to the pure functions hold: the three the
\* functions name and one they do not
PurePermissions == PermissionNames \ {"MANAGE_BOOKINGS"}

\* The levels a catalog of permissions (Permissions of models/user.model) may give
PermissionCatalogs == [PurePermissions -> Levels]

PureUsers == [bdeUUID : BDEs, permissions : SUBSET PurePermissions]

PureCalls ==
    [fn : {"findPermissionLevel"}, user : PureUsers]
    \cup [fn : {"canManagePermissions"}, source : PureUsers, target : PureUsers]
    \cup [fn : {"canAddUser"}, source : PureUsers, bdeUUID : BDEs]
    \cup [fn : {"canBookNow"}, event : Events, now : Instants]

IdleCtrl ==
    /\ pc = "idle"
    /\ req = None
    /\ claims = None
    /\ event = None
    /\ clock = None
    /\ found = << >>
    /\ failure = None
    /\ resp = << >>
    /\ calls = << >>
    /\ logged = << >>

\* No concurrent request is running
IdleStore ==
    /\ store = None
    /\ handlers = << >>
    /\ applied = << >>

PureInit ==
    /\ level \in PermissionCatalogs
    /\ call \in PureCalls
    /\ ret = None
    /\ IdleCtrl
    /\ IdleStore

CallFindPermissionLevel ==
    /\ ret = None
    /\ call.fn = "findPermissionLevel"
    /\ ret' = Some(findPermissionLevel(call.user))
    /\ UNCHANGED << level, call, ctrlVars, storeVars >>

CallCanManagePermissions ==
    /\ ret = None
    /\ call.fn = "canManagePermissions"
    /\ ret' = Some(canManagePermissions(call.source, call.target))
    /\ UNCHANGED << level, call, ctrlVars, storeVars >>

CallCanAddUser ==
    /\ ret = None
    /\ call.fn = "canAddUser"
    /\ ret' = Some(canAddUser(call.source, call.bdeUUID))
    /\ UNCHANGED << level, call, ctrlVars, storeVars >>

CallCanBookNow ==
    /\ ret = None
    /\ call.fn = "canBookNow"
    /\ ret' = Some(canBookNow(call.event, call.now))
    /\ UNCHANGED << level, call, ctrlVars, storeVars >>

PureNext ==
    \/ CallFindPermissionLevel
    \/ CallCanManagePermissions
    \/ CallCanAddUser
    \/ CallCanBookNow

PureSpec == PureInit /\ [][PureNext]_vars

\* ------------------------------------------------------- collaborators

\* utils/http-code: a response is a status code with a message or a body; the body
\* is the listing, or the one entity (Some) the method answers with
ok(body) == [status |-> 200, message |-> "", body |-> body]
created(body) == [status |-> 201, message |-> "", body |-> body]
noContent == [status |-> 204, message |-> "", body |-> None]
badRequest(message) == [status |-> 400, message |-> message, body |-> None]
unauthorized(message) == [status |-> 401, message |-> message, body |-> None]
forbidden(message) == [status |-> 403, message |-> message, body |-> None]
notFound(message) == [status |-> 404, message |-> message, body |-> None]
internalServerError(message) == [status |-> 500, message |-> message, body |-> None]

\* The token argument: absent, the empty string, or a bearer token
Tokens == {None, Some(""), Some("jwt")}

\* !token
NoToken(token) == token = None \/ token = Some("")

UserUUIDs == {"u1", "u2"}

\* The permissions the controllers' checks read in the caller's claims
ClaimPermissions == PermissionNames \ {"MANAGE_PERMISSIONS", "ADD_USER"}

\* The claims authService.verifyToken may resolve to
JWTClaims == [uuid : UserUUIDs, bdeUUID : BDEs, permissions : SUBSET ClaimPermissions]

\* The errors a persistence service rejects with: one of its domain types, or an
\* error that carries no type
EventsErrorType == {"EVENT_NOT_EXISTS", "BDE_UUID_NOT_EXISTS"}
BookingsErrorType ==
    {"EVENT_NOT_EXISTS", "USER_NOT_EXISTS", "BOOKING_ALREADY_EXISTS", "BOOKING_NOT_EXISTS"}
EventsErrors == [type : EventsErrorType \cup {"undefined"}]
BookingsErrors == [type : BookingsErrorType \cup {"undefined"}]

\* A path parameter: a known UUID, the empty string, or a string of 37 characters
LongString == "0123456789012345678901234567890123456"
StringLength(s) ==
    CASE s = "" -> 0
      [] s \in {"u1", "u2", "e1", "e2"} -> 2
      [] s \in {"bde1", "bde2", "gala"} -> 4
      [] s = LongString -> 37

\* What a try/catch block around an awaited call does with the error it caught
Returns(response) == [outcome |-> "return", response |-> response, log |-> << >>]
LogsAndReturns(e, response) == [outcome |-> "return", response |-> response, log |-> << e >>]
Throws(e) == [outcome |-> "throw", response |-> noContent, log |-> << >>]

\* The error authService.verifyToken rejects with: it carries no domain type
TokenError == [type |-> "undefined"]

\* An awaited call rejects with e, which the catch block around it catches
Rejected(collaborator, e) == failure' = Some([call |-> collaborator, error |-> e])

\* The method returns: its promise resolves to the response (or rejects)
Settle(h) ==
    /\ logged' = logged \o h.log
    /\ calls' = calls
    /\ IF h.outcome = "throw"
       THEN pc' = "rejected" /\ resp' = resp
       ELSE pc' = "done" /\ resp' = Append(resp, h.response)

\* The method awaits a call of a collaborator
Await(label, collaborator) ==
    /\ pc' = label
    /\ calls' = Append(calls, collaborator)
    /\ UNCHANGED << resp, logged >>

Method == Get(req).method
Claims == Get(claims)
Fetched == Get(event)

\* ------------------------------------------------------ BookingsController

BookingForce == {None, Some("true"), Some("false"), Some("yes")}

\* The request body: null, or an object that may carry force
BookingBodies == {None} \cup {Some([force |-> f]) : f \in BookingForce}

\* body = { ...(body || {}), user: userUUID, event: eventUUID }
MergeBody(body, userUUID, eventUUID) ==
    [user |-> userUUID, event |-> eventUUID,
     force |-> IF body = None THEN None ELSE Get(body).force]

\* BOOKING_VALIDATOR.validate(body).valid
BOOKING_VALIDATOR(body) ==
    /\ StringLength(body.user) >= 1 /\ StringLength(body.user) <= 36
    /\ StringLength(body.event) >= 1 /\ StringLength(body.event) <= 36
    /\ body.force = None \/ body.force \in {Some("true"), Some("false")}

\* result.value.force, as a condition
Force(body) == body.force = Some("true")

\* The merged body of the request BookingsController.create handles
BookingBody == Get(Get(req).body)

Booking == [eventUUID |-> BookingBody.event, userUUID |-> BookingBody.user]

\* eventsService.findByUUID resolves to an event of that UUID, or rejects
FindByUUIDResults(eventUUID) == {e \in Events : e.eventUUID = eventUUID}

BookingsCreate ==
    /\ pc = "idle"
    /\ \E eventUUID \in EventUUIDs \cup {""}, userUUID \in UserUUIDs \cup {"", LongString},
          body \in BookingBodies, token \in Tokens :
        /\ req' = Some([method |-> "BookingsController.create",
                        body |-> Some(MergeBody(body, userUUID, eventUUID)),
                        token |-> token])
        /\ IF NoToken(token)
           THEN Settle(Returns(unauthorized("You must authenticate.")))
           ELSE Await("BookingsController.create:verifyToken", "authService.verifyToken")
    /\ UNCHANGED << claims, event, clock, found, failure, level, pureVars, storeVars >>

BookingsCreate_VerifyTokenRejects ==
    /\ pc = "BookingsController.create:verifyToken"
    /\ Rejected("authService.verifyToken", TokenError)
    /\ Settle(Returns(unauthorized("The given token is invalid.")))
    /\ UNCHANGED << req, claims, event, clock, found, level, pureVars, storeVars >>

BookingsCreate_VerifyTokenResolves ==
    /\ pc = "BookingsController.create:verifyToken"
    /\ \E jwtClaims \in JWTClaims :
        /\ claims' = Some(jwtClaims)
        /\ IF ~BOOKING_VALIDATOR(BookingBody)
           THEN Settle(Returns(badRequest("validation error")))
           ELSE Await("BookingsController.create:findByUUID", "eventsService.findByUUID")
    /\ UNCHANGED << req, event, clock, found, failure, level, pureVars, storeVars >>

\* catch (e) of lines 80-86
BookingsCreate_CatchFindByUUID(e) ==
    IF e.type = "EVENT_NOT_EXISTS"
    THEN Returns(badRequest("Invalid event UUID specified."))
    ELSE LogsAndReturns(e, internalServerError(
            "Unable to create booking. Contact an adminstrator or retry later."))

BookingsCreate_FindByUUIDRejects ==
    /\ pc = "BookingsController.create:findByUUID"
    /\ \E e \in EventsErrors :
        /\ Rejected("eventsService.findByUUID", e)
        /\ Settle(BookingsCreate_CatchFindByUUID(e))
    /\ UNCHANGED << req, claims, event, clock, found, level, pureVars, storeVars >>

\* Lines 88-99 where force skips the booking-ownership check
BookingsCreate_Checks_ForceSkipsOwnership(jwtClaims, body, ev, now) ==
    IF ~Force(body)
       /\ ~canManageBooking(jwtClaims, [userUUID |-> body.user, bdeUUID |-> ev.bdeUUID])
    THEN Some(forbidden("You do not have the permission to create this booking."))
    ELSE IF Force(body) /\ ~canManageEvents(jwtClaims, ev.bdeUUID)
    THEN Some(forbidden("You do not have permission to force booking."))
    ELSE IF ~Force(body) /\ ~canBookNow(ev, now)
    THEN Some(forbidden("It is not possible to book this event now."))
    ELSE None

\* Lines 88-99 where force needs no permission to manage events
BookingsCreate_Checks_ForceUngated(jwtClaims, body, ev, now) ==
    IF ~canManageBooking(jwtClaims, [userUUID |-> body.user, bdeUUID |-> ev.bdeUUID])
    THEN Some(forbidden("You do not have the permission to create this booking."))
    ELSE IF ~Force(body) /\ ~canBookNow(ev, now)
    THEN Some(forbidden("It is not possible to book this event now."))
    ELSE None

\* Lines 88-99: what the three permission checks decide, given the clock canBookNow
\* would read: the response of the check that fails, or None
BookingsCreate_Checks(jwtClaims, body, ev, now) ==
    IF ~canManageBooking(jwtClaims, [userUUID |-> body.user, bdeUUID |-> ev.bdeUUID])
    THEN Some(forbidden("You do not have the permission to create this booking."))
    ELSE IF Force(body) /\ ~canManageEvents(jwtClaims, ev.bdeUUID)
    THEN Some(forbidden("You do not have permission to force booking."))
    ELSE IF ~Force(body) /\ ~canBookNow(ev, now)
    THEN Some(forbidden("It is not possible to book this event now."))
    ELSE None

\* Whether lines 88-99 call canBookNow, which reads the clock
BookingsCreate_ReadsClock(jwtClaims, body, ev) ==
    /\ canManageBooking(jwtClaims, [userUUID |-> body.user, bdeUUID |-> ev.bdeUUID])
    /\ ~Force(body)

BookingsCreate_FindByUUIDResolves ==
    /\ pc = "BookingsController.create:findByUUID"
    /\ \E ev \in FindByUUIDResults(BookingBody.event), now \in Instants :
        LET denied == BookingsCreate_Checks(Claims, BookingBody, ev, now) IN
        /\ event' = Some(ev)
        /\ clock' = IF BookingsCreate_ReadsClock(Claims, BookingBody, ev)
                    THEN Some(now) ELSE None
        /\ IF IsSet(denied)
           THEN Settle(Returns(Get(denied)))
           ELSE Await("BookingsController.create:create", "bookingService.create")
    /\ UNCHANGED << req, claims, found, failure, level, pureVars, storeVars >>

\* catch (e) of lines 105-115
BookingsCreate_CatchCreate(e) ==
    IF e.type = "EVENT_NOT_EXISTS"
    THEN Returns(badRequest("Specified bde UUID is invalid."))
    ELSE IF e.type = "USER_NOT_EXISTS"
    THEN Returns(badRequest("Specified user UUID is invalid."))
    ELSE IF e.type = "BOOKING_ALREADY_EXISTS"
    THEN Returns(badRequest("This booking already exists."))
    ELSE LogsAndReturns(e, internalServerError(
            "Unable to create booking. Contact an adminstrator or retry later."))

BookingsCreate_CreateRejects ==
    /\ pc = "BookingsController.create:create"
    /\ \E e \in BookingsErrors :
        /\ Rejected("bookingService.create", e)
        /\ Settle(BookingsCreate_CatchCreate(e))
    /\ UNCHANGED << req, claims, event, clock, found, level, pureVars, storeVars >>

BookingsCreate_CreateResolves ==
    /\ pc = "BookingsController.create:create"
    /\ Settle(Returns(created(Some(Booking))))
    /\ UNCHANGED << req, claims, event, clock, found, failure, level, pureVars, storeVars >>

BookingsFindOne ==
    /\ pc = "idle"
    /\ \E eventUUID \in EventUUIDs \cup {""}, userUUID \in UserUUIDs, token \in Tokens :
        /\ req' = Some([method |-> "BookingsController.findOne",
                        eventUUID |-> eventUUID, userUUID |-> userUUID, token |-> token])
        /\ IF NoToken(token)
           THEN Settle(Returns(unauthorized("You must authenticate.")))
           ELSE Await("BookingsController.findOne:verifyToken", "authService.verifyToken")
    /\ UNCHANGED << claims, event, clock, found, failure, level, pureVars, storeVars >>

BookingsFindOne_VerifyTokenRejects ==
    /\ pc = "BookingsController.findOne:verifyToken"
    /\ Rejected("authService.verifyToken", TokenError)
    /\ Settle(Returns(unauthorized("The given token is invalid.")))
    /\ UNCHANGED << req, claims, event, clock, found, level, pureVars, storeVars >>

BookingsFindOne_VerifyTokenResolves ==
    /\ pc = "BookingsController.findOne:verifyToken"
    /\ \E jwtClaims \in JWTClaims : claims' = Some(jwtClaims)
    /\ Await("BookingsController.findOne:findByUUID", "eventsService.findByUUID")
    /\ UNCHANGED << req, event, clock, found, failure, level, pureVars, storeVars >>

\* catch (e) of lines 146-152
BookingsFindOne_CatchFindByUUID(e) ==
    IF e.type = "EVENT_NOT_EXISTS"
    THEN Returns(notFound("Event does not exists."))
    ELSE LogsAndReturns(e, internalServerError(
            "Can't retrieve booking. Contact an adminstrator or retry later."))

BookingsFindOne_FindByUUIDRejects ==
    /\ pc = "BookingsController.findOne:findByUUID"
    /\ \E e \in EventsErrors :
        /\ Rejected("eventsService.findByUUID", e)
        /\ Settle(BookingsFindOne_CatchFindByUUID(e))
    /\ UNCHANGED << req, claims, event, clock, found, level, pureVars, storeVars >>

BookingsFindOne_FindByUUIDResolves ==
    /\ pc = "BookingsController.findOne:findByUUID"
    /\ \E ev \in FindByUUIDResults(Get(req).eventUUID) :
        /\ event' = Some(ev)
        /\ IF ~canManageBooking(Claims, [userUUID |-> Get(req).userUUID, bdeUUID |-> ev.bdeUUID])
           THEN Settle(Returns(forbidden("You do not have permission to fetch this booking.")))
           ELSE Await("BookingsController.findOne:findOne", "bookingService.findOne")
    /\ UNCHANGED << req, claims, clock, found, failure, level, pureVars, storeVars >>

\* catch (e) of lines 164-170
BookingsFindOne_CatchFindOne(e) ==
    IF e.type = "BOOKING_NOT_EXISTS"
    THEN Returns(notFound("This booking does not exist."))
    ELSE LogsAndReturns(e, internalServerError(
            "Unable to fecth booking. Contact an adminstrator or retry later."))

BookingsFindOne_FindOneRejects ==
    /\ pc = "BookingsController.findOne:findOne"
    /\ \E e \in BookingsErrors :
        /\ Rejected("bookingService.findOne", e)
        /\ Settle(BookingsFindOne_CatchFindOne(e))
    /\ UNCHANGED << req, claims, event, clock, found, level, pureVars, storeVars >>

BookingsFindOne_FindOneResolves ==
    /\ pc = "BookingsController.findOne:findOne"
    /\ Settle(Returns(ok(Some([eventUUID |-> Get(req).eventUUID,
                               userUUID |-> Get(req).userUUID]))))
    /\ UNCHANGED << req, claims, event, clock, found, failure, level, pureVars, storeVars >>

\* The sequences over S of length at most n
SeqUpTo(S, n) == UNION {[1 .. k -> S] : k \in 0 .. n}

\* Booking & Event: the fields of a listed booking the controller reads
BookingEvents == [userUUID : UserUUIDs, eventUUID : EventUUIDs, bdeUUID : BDEs]

\* What findBookingsForUser and findBookingsForEvent may resolve to
BookingLists == SeqUpTo(BookingEvents, MaxList)

\* line 197 commented out, as line 226 is
FilterManageable_Unfiltered(jwtClaims, bookings) == bookings

\* line 197: booking.filter(canManageBooking(jwtClaims, ...))
FilterManageable(jwtClaims, bookings) ==
    LET Manageable(b) ==
            canManageBooking(jwtClaims, [userUUID |-> b.userUUID, bdeUUID |-> b.bdeUUID])
    IN SelectSeq(bookings, Manageable)

BookingsFindUserBookings ==
    /\ pc = "idle"
    /\ \E userUUID \in UserUUIDs, token \in Tokens :
        /\ req' = Some([method |-> "BookingsController.findUserBookings",
                        userUUID |-> userUUID, token |-> token])
        /\ IF NoToken(token)
           THEN Settle(Returns(unauthorized("You must authenticate.")))
           ELSE Await("BookingsController.findUserBookings:verifyToken",
                      "authService.verifyToken")
    /\ UNCHANGED << claims, event, clock, found, failure, level, pureVars, storeVars >>

BookingsFindUserBookings_VerifyTokenRejects ==
    /\ pc = "BookingsController.findUserBookings:verifyToken"
    /\ Rejected("authService.verifyToken", TokenError)
    /\ Settle(Returns(unauthorized("The given token is invalid.")))
    /\ UNCHANGED << req, claims, event, clock, found, level, pureVars, storeVars >>

BookingsFindUserBookings_VerifyTokenResolves ==
    /\ pc = "BookingsController.findUserBookings:verifyToken"
    /\ \E jwtClaims \in JWTClaims : claims' = Some(jwtClaims)
    /\ Await("BookingsController.findUserBookings:findBookingsForUser",
             "bookingService.findBookingsForUser")
    /\ UNCHANGED << req, event, clock, found, failure, level, pureVars, storeVars >>

\* catch (e) of lines 191-194
BookingsFindUserBookings_Catch(e) ==
    LogsAndReturns(e, internalServerError(
        "Unable to fecth booking. Contact an adminstrator or retry later."))

BookingsFindUserBookings_FindRejects ==
    /\ pc = "BookingsController.findUserBookings:findBookingsForUser"
    /\ \E e \in BookingsErrors :
        /\ Rejected("bookingService.findBookingsForUser", e)
        /\ Settle(BookingsFindUserBookings_Catch(e))
    /\ UNCHANGED << req, claims, event, clock, found, level, pureVars, storeVars >>

BookingsFindUserBookings_FindResolves ==
    /\ pc = "BookingsController.findUserBookings:findBookingsForUser"
    /\ \E bookings \in BookingLists :
        /\ found' = bookings
        /\ Settle(Returns(ok(FilterManageable(Claims, bookings))))
    /\ UNCHANGED << req, claims, event, clock, failure, level, pureVars, storeVars >>

BookingsFindEventBookings ==
    /\ pc = "idle"
    /\ \E eventUUID \in EventUUIDs \cup {""}, token \in Tokens :
        /\ req' = Some([method |-> "BookingsController.findEventBookings",
                        eventUUID |-> eventUUID, token |-> token])
        /\ IF NoToken(token)
           THEN Settle(Returns(unauthorized("You must authenticate.")))
           ELSE Await("BookingsController.findEventBookings:verifyToken",
                      "authService.verifyToken")
    /\ UNCHANGED << claims, event, clock, found, failure, level, pureVars, storeVars >>

BookingsFindEventBookings_VerifyTokenRejects ==
    /\ pc = "BookingsController.findEventBookings:verifyToken"
    /\ Rejected("authService.verifyToken", TokenError)
    /\ Settle(Returns(unauthorized("The given token is invalid.")))
    /\ UNCHANGED << req, claims, event, clock, found, level, pureVars, storeVars >>

BookingsFindEventBookings_VerifyTokenResolves ==
    /\ pc = "BookingsController.findEventBookings:verifyToken"
    /\ \E jwtClaims \in JWTClaims : claims' = Some(jwtClaims)
    /\ Await("BookingsController.findEventBookings:findBookingsForEvent",
             "bookingService.findBookingsForEvent")
    /\ UNCHANGED << req, event, clock, found, failure, level, pureVars, storeVars >>

\* catch (e) of lines 220-223
BookingsFindEventBookings_Catch(e) ==
    LogsAndReturns(e, internalServerError(
        "Unable to fecth bookings. Contact an adminstrator or retry later."))

BookingsFindEventBookings_FindRejects ==
    /\ pc = "BookingsController.findEventBookings:findBookingsForEvent"
    /\ \E e \in BookingsErrors :
        /\ Rejected("bookingService.findBookingsForEvent", e)
        /\ Settle(BookingsFindEventBookings_Catch(e))
    /\ UNCHANGED << req, claims, event, clock, found, level, pureVars, storeVars >>

BookingsFindEventBookings_FindResolves ==
    /\ pc = "BookingsController.findEventBookings:findBookingsForEvent"
    /\ \E bookings \in BookingLists :
        /\ found' = bookings
        /\ Settle(Returns(ok(bookings)))
    /\ UNCHANGED << req, claims, event, clock, failure, level, pureVars, storeVars >>

\* -------------------------------------------------------- EventsController

\* An ISO 8601 string: a local time and a UTC offset, or not a date at all
IsoStrings ==
    { [wellFormed |-> TRUE, local |-> 1, offset |-> 0],
      [wellFormed |-> TRUE, local |-> 2, offset |-> 1],
      [wellFormed |-> TRUE, local |-> 2, offset |-> 0],
      [wellFormed |-> FALSE, local |-> 0, offset |-> 0] }

\* DateTime.fromISO: the instant the string denotes
fromISO(s) == s.local - s.offset

OptIsoStrings == {None} \cup {Some(s) : s \in IsoStrings}

\* The request body: null, or an object with the fields of EventBodyRequest
EventBodies ==
    {None} \cup
    {Some(b) : b \in [name : {"", "gala"}, bde : BDEs \cup {""},
                      isDraft : {"true", "false", "yes"},
                      bookingStart : OptIsoStrings, bookingEnd : OptIsoStrings,
                      eventDate : {None, Some([wellFormed |-> TRUE, local |-> 2, offset |-> 0])}]}

toBeDateTime(field) == field = None \/ Get(field).wellFormed

\* EVENT_VALIDATOR.validate(body).valid
EVENT_VALIDATOR(body) ==
    /\ body # None
    /\ StringLength(Get(body).name) >= 1 /\ StringLength(Get(body).name) <= 200
    /\ StringLength(Get(body).bde) >= 1
    /\ Get(body).isDraft \in {"true", "false"}
    /\ toBeDateTime(Get(body).bookingStart)
    /\ toBeDateTime(Get(body).bookingEnd)
    /\ toBeDateTime(Get(body).eventDate)

\* One date of assignDates: set only if the request gives it
assignDate(field) == IF field = None THEN None ELSE Some(fromISO(Get(field)))

\* The event built from the validated body (lines 81-89, 188-196)
BuildEvent(eventUUID, value) ==
    [eventUUID |-> eventUUID, bdeUUID |-> value.bde, eventName |-> value.name,
     isDraft |-> (value.isDraft = "true"),
     bookingStart |-> assignDate(value.bookingStart),
     bookingEnd |-> assignDate(value.bookingEnd),
     eventDate |-> assignDate(value.eventDate)]

areBookingDatesWellOrdered(ev) ==
    \/ ev.bookingStart = None
    \/ ev.bookingEnd = None
    \/ Get(ev.bookingStart) < Get(ev.bookingEnd)

\* uuid(): an identifier no stored event has
NewUUID == "e2"

\* Lines 75-99 of create with the permission checked before the order of the dates
EventsCreate_Checks_PermissionFirst(jwtClaims, body) ==
    IF ~EVENT_VALIDATOR(body)
    THEN Some(badRequest("validation error"))
    ELSE IF ~canManageEvents(jwtClaims, Get(body).bde)
    THEN Some(forbidden("You do not have the permission to create this event."))
    ELSE IF ~areBookingDatesWellOrdered(BuildEvent(NewUUID, Get(body)))
    THEN Some(badRequest("Booking end date must come (strictly) after booking beginning date."))
    ELSE None

\* Lines 75-99 of create: the response of the first check that fails, or None
EventsCreate_Checks(jwtClaims, body) ==
    IF ~EVENT_VALIDATOR(body)
    THEN Some(badRequest("validation error"))
    ELSE IF ~areBookingDatesWellOrdered(BuildEvent(NewUUID, Get(body)))
    THEN Some(badRequest("Booking end date must come (strictly) after booking beginning date."))
    ELSE IF ~canManageEvents(jwtClaims, Get(body).bde)
    THEN Some(forbidden("You do not have the permission to create this event."))
    ELSE None

EventsCreate ==
    /\ pc = "idle"
    /\ \E body \in EventBodies, token \in Tokens :
        /\ req' = Some([method |-> "EventsController.create", body |-> body, token |-> token])
        /\ IF NoToken(token)
           THEN Settle(Returns(unauthorized("You must be connected.")))
           ELSE Await("EventsController.create:verifyToken", "authService.verifyToken")
    /\ UNCHANGED << claims, event, clock, found, failure, level, pureVars, storeVars >>

EventsCreate_VerifyTokenRejects ==
    /\ pc = "EventsController.create:verifyToken"
    /\ Rejected("authService.verifyToken", TokenError)
    /\ Settle(Returns(unauthorized("The given token is invalid.")))
    /\ UNCHANGED << req, claims, event, clock, found, level, pureVars, storeVars >>

EventsCreate_VerifyTokenResolves ==
    /\ pc = "EventsController.create:verifyToken"
    /\ \E jwtClaims \in JWTClaims :
        LET denied == EventsCreate_Checks(jwtClaims, Get(req).body) IN
        /\ claims' = Some(jwtClaims)
        /\ IF IsSet(denied)
           THEN Settle(Returns(Get(denied)))
           ELSE Await("EventsController.create:create", "eventsService.create")
    /\ UNCHANGED << req, event, clock, found, failure, level, pureVars, storeVars >>

\* catch (e) of lines 104-110
EventsCreate_CatchCreate(e) ==
    IF e.type = "BDE_UUID_NOT_EXISTS"
    THEN Returns(badRequest("Given bde UUID does not exist."))
    ELSE LogsAndReturns(e, internalServerError(
            "Unable to create an event. Contact an administrator or retry later."))

EventsCreate_CreateRejects ==
    /\ pc = "EventsController.create:create"
    /\ \E e \in EventsErrors :
        /\ Rejected("eventsService.create", e)
        /\ Settle(EventsCreate_CatchCreate(e))
    /\ UNCHANGED << req, claims, event, clock, found, level, pureVars, storeVars >>

EventsCreate_CreateResolves ==
    /\ pc = "EventsController.create:create"
    /\ Settle(Returns(created(Some(BuildEvent(NewUUID, Get(Get(req).body))))))
    /\ UNCHANGED << req, claims, event, clock, found, failure, level, pureVars, storeVars >>

EventsFindOne ==
    /\ pc = "idle"
    /\ \E eventUUID \in EventUUIDs \cup {""}, token \in Tokens :
        req' = Some([method |-> "EventsController.findOne",
                     eventUUID |-> eventUUID, token |-> token])
    /\ Await("EventsController.findOne:findByUUID", "eventsService.findByUUID")
    /\ UNCHANGED << claims, event, clock, found, failure, level, pureVars, storeVars >>

\* catch (e) of lines 126-132
EventsFindOne_CatchFindByUUID(e) ==
    IF e.type = "EVENT_NOT_EXISTS"
    THEN Returns(notFound("Not found"))
    ELSE LogsAndReturns(e, internalServerError(
            "Unable to fetch this event. Contact an adminstrator or retry later."))

EventsFindOne_FindByUUIDRejects ==
    /\ pc = "EventsController.findOne:findByUUID"
    /\ \E e \in EventsErrors :
        /\ Rejected("eventsService.findByUUID", e)
        /\ Settle(EventsFindOne_CatchFindByUUID(e))
    /\ UNCHANGED << req, claims, event, clock, found, level, pureVars, storeVars >>

EventsFindOne_FindByUUIDResolves ==
    /\ pc = "EventsController.findOne:findByUUID"
    /\ \E ev \in FindByUUIDResults(Get(req).eventUUID) :
        /\ event' = Some(ev)
        /\ IF ~ev.isDraft
           THEN Settle(Returns(ok(Some(ev))))
           ELSE IF NoToken(Get(req).token)
           THEN Settle(Returns(unauthorized("You must authenticate to access this resource.")))
           ELSE Await("EventsController.findOne:verifyToken", "authService.verifyToken")
    /\ UNCHANGED << req, claims, clock, found, failure, level, pureVars, storeVars >>

EventsFindOne_VerifyTokenRejects ==
    /\ pc = "EventsController.findOne:verifyToken"
    /\ Rejected("authService.verifyToken", TokenError)
    /\ Settle(Returns(unauthorized("The given token is invalid.")))
    /\ UNCHANGED << req, claims, event, clock, found, level, pureVars, storeVars >>

EventsFindOne_VerifyTokenResolves ==
    /\ pc = "EventsController.findOne:verifyToken"
    /\ \E user \in JWTClaims :
        /\ claims' = Some(user)
        /\ IF ~canManageEvents(user, Fetched.bdeUUID)
           THEN Settle(Returns(forbidden(
                    "You do not have the permission to access this resource.")))
           ELSE Settle(Returns(ok(Some(Fetched))))
    /\ UNCHANGED << req, event, clock, found, failure, level, pureVars, storeVars >>

\* Lines 182-201 of patchEvent: the response of the first check that fails, or None
EventsPatch_BodyChecks(eventUUID, body) ==
    IF ~EVENT_VALIDATOR(body)
    THEN Some(badRequest("validation error"))
    ELSE IF ~areBookingDatesWellOrdered(BuildEvent(eventUUID, Get(body)))
    THEN Some(badRequest("bookingEnd date must come (strictly) after bookingStart date."))
    ELSE None

\* Lines 215-223 of patchEvent without lines 215-218: only the BDE of the fetched
\* event is checked
EventsPatch_Checks_FetchedBdeOnly(jwtClaims, ev, fetchedEvent) ==
    IF ~canManageEvents(jwtClaims, fetchedEvent.bdeUUID)
    THEN Some(forbidden("You do not have the permission to patch this event."))
    ELSE None

\* Lines 215-223 of patchEvent: the response of the first check that fails, or None
EventsPatch_Checks(jwtClaims, ev, fetchedEvent) ==
    IF ev.bdeUUID # fetchedEvent.bdeUUID /\ ~canManageEvents(jwtClaims, ev.bdeUUID)
    THEN Some(forbidden("You do not have the permission to patch this event."))
    ELSE IF ~canManageEvents(jwtClaims, fetchedEvent.bdeUUID)
    THEN Some(forbidden("You do not have the permission to patch this event."))
    ELSE None

\* The local variable event of patchEvent
PatchedEvent == BuildEvent(Get(req).eventUUID, Get(Get(req).body))

EventsPatch ==
    /\ pc = "idle"
    /\ \E eventUUID \in EventUUIDs \cup {""}, body \in EventBodies, token \in Tokens :
        /\ req' = Some([method |-> "EventsController.patchEvent",
                        eventUUID |-> eventUUID, body |-> body, token |-> token])
        /\ IF NoToken(token)
           THEN Settle(Returns(unauthorized("You must be connected.")))
           ELSE Await("EventsController.patchEvent:verifyToken", "authService.verifyToken")
    /\ UNCHANGED << claims, event, clock, found, failure, level, pureVars, storeVars >>

EventsPatch_VerifyTokenRejects ==
    /\ pc = "EventsController.patchEvent:verifyToken"
    /\ Rejected("authService.verifyToken", TokenError)
    /\ Settle(Returns(unauthorized("The given token is invalid.")))
    /\ UNCHANGED << req, claims, event, clock, found, level, pureVars, storeVars >>

EventsPatch_VerifyTokenResolves ==
    /\ pc = "EventsController.patchEvent:verifyToken"
    /\ \E jwtClaims \in JWTClaims :
        LET refused == EventsPatch_BodyChecks(Get(req).eventUUID, Get(req).body) IN
        /\ claims' = Some(jwtClaims)
        /\ IF IsSet(refused)
           THEN Settle(Returns(Get(refused)))
           ELSE Await("EventsController.patchEvent:findByUUID", "eventsService.findByUUID")
    /\ UNCHANGED << req, event, clock, found, failure, level, pureVars, storeVars >>

\* catch (e) of lines 207-213
EventsPatch_CatchFindByUUID(e) ==
    IF e.type = "EVENT_NOT_EXISTS"
    THEN Returns(notFound("No event with uuid ${event.eventUUID} exists."))
    ELSE LogsAndReturns(e, internalServerError(
            "Unable to patch the event. Please contact and adminstrator or retry later."))

EventsPatch_FindByUUIDRejects ==
    /\ pc = "EventsController.patchEvent:findByUUID"
    /\ \E e \in EventsErrors :
        /\ Rejected("eventsService.findByUUID", e)
        /\ Settle(EventsPatch_CatchFindByUUID(e))
    /\ UNCHANGED << req, claims, event, clock, found, level, pureVars, storeVars >>

EventsPatch_FindByUUIDResolves ==
    /\ pc = "EventsController.patchEvent:findByUUID"
    /\ \E fetchedEvent \in FindByUUIDResults(Get(req).eventUUID) :
        LET denied == EventsPatch_Checks(Claims, PatchedEvent, fetchedEvent) IN
        /\ event' = Some(fetchedEvent)
        /\ IF IsSet(denied)
           THEN Settle(Returns(Get(denied)))
           ELSE Await("EventsController.patchEvent:update", "eventsService.update")
    /\ UNCHANGED << req, claims, clock, found, failure, level, pureVars, storeVars >>

\* catch (e) of lines 228-236 that throws again the errors it does not know
EventsPatch_CatchUpdate_Rethrows(e) ==
    IF e.type = "EVENT_NOT_EXISTS"
    THEN Returns(notFound("No event with uuid ${event.eventUUID} exists."))
    ELSE IF e.type = "BDE_UUID_NOT_EXISTS"
    THEN Returns(badRequest("No BDE with UUID ${event.bdeUUID} exists."))
    ELSE Throws(e)

\* catch (e) of lines 228-236
EventsPatch_CatchUpdate(e) ==
    IF e.type = "EVENT_NOT_EXISTS"
    THEN Returns(notFound("No event with uuid ${event.eventUUID} exists."))
    ELSE IF e.type = "BDE_UUID_NOT_EXISTS"
    THEN Returns(badRequest("No BDE with UUID ${event.bdeUUID} exists."))
    ELSE LogsAndReturns(e, internalServerError(
            "Unable to patch event. Contact an administrator or retry later."))

EventsPatch_UpdateRejects ==
    /\ pc = "EventsController.patchEvent:update"
    /\ \E e \in EventsErrors :
        /\ Rejected("eventsService.update", e)
        /\ Settle(EventsPatch_CatchUpdate(e))
    /\ UNCHANGED << req, claims, event, clock, found, level, pureVars, storeVars >>

EventsPatch_UpdateResolves ==
    /\ pc = "EventsController.patchEvent:update"
    /\ Settle(Returns(ok(Some(PatchedEvent))))
    /\ UNCHANGED << req, claims, event, clock, found, failure, level, pureVars, storeVars >>

\* deleteEvent without lines 249-251: the token is handed to verifyToken unchecked
EventsDelete_TokenNotRequired ==
    /\ pc = "idle"
    /\ \E eventUUID \in EventUUIDs \cup {""}, token \in Tokens :
        req' = Some([method |-> "EventsController.deleteEvent",
                     eventUUID |-> eventUUID, token |-> token])
    /\ Await("EventsController.deleteEvent:verifyToken", "authService.verifyToken")
    /\ UNCHANGED << claims, event, clock, found, failure, level, pureVars, storeVars >>

EventsDelete ==
    /\ pc = "idle"
    /\ \E eventUUID \in EventUUIDs \cup {""}, token \in Tokens :
        /\ req' = Some([method |-> "EventsController.deleteEvent",
                        eventUUID |-> eventUUID, token |-> token])
        /\ IF NoToken(token)
           THEN Settle(Returns(unauthorized("You must be connected.")))
           ELSE Await("EventsController.deleteEvent:verifyToken", "authService.verifyToken")
    /\ UNCHANGED << claims, event, clock, found, failure, level, pureVars, storeVars >>

EventsDelete_VerifyTokenRejects ==
    /\ pc = "EventsController.deleteEvent:verifyToken"
    /\ Rejected("authService.verifyToken", TokenError)
    /\ Settle(Returns(unauthorized("The given token is invalid.")))
    /\ UNCHANGED << req, claims, event, clock, found, level, pureVars, storeVars >>

EventsDelete_VerifyTokenResolves ==
    /\ pc = "EventsController.deleteEvent:verifyToken"
    /\ \E jwtClaims \in JWTClaims : claims' = Some(jwtClaims)
    /\ Await("EventsController.deleteEvent:findByUUID", "eventsService.findByUUID")
    /\ UNCHANGED << req, event, clock, found, failure, level, pureVars, storeVars >>

\* catch (e) of lines 265-271
EventsDelete_CatchFindByUUID(e) ==
    IF e.type = "EVENT_NOT_EXISTS"
    THEN Returns(notFound("No event with uuid ${eventUUID} exists."))
    ELSE LogsAndReturns(e, internalServerError(
            "Unable to delete the event. Please contact and adminstrator or retry later."))

EventsDelete_FindByUUIDRejects ==
    /\ pc = "EventsController.deleteEvent:findByUUID"
    /\ \E e \in EventsErrors :
        /\ Rejected("eventsService.findByUUID", e)
        /\ Settle(EventsDelete_CatchFindByUUID(e))
    /\ UNCHANGED << req, claims, event, clock, found, level, pureVars, storeVars >>

EventsDelete_FindByUUIDResolves ==
    /\ pc = "EventsController.deleteEvent:findByUUID"
    /\ \E fetchedEvent \in FindByUUIDResults(Get(req).eventUUID) :
        /\ event' = Some(fetchedEvent)
        /\ IF ~canManageEvents(Claims, fetchedEvent.bdeUUID)
           THEN Settle(Returns(forbidden("You do not have the permission to patch this event.")))
           ELSE Await("EventsController.deleteEvent:delete", "eventsService.delete")
    /\ UNCHANGED << req, claims, clock, found, failure, level, pureVars, storeVars >>

\* catch (e) of lines 281-287 without line 285: the error is masked but not logged
EventsDelete_CatchDelete_Unlogged(e) ==
    IF e.type = "EVENT_NOT_EXISTS"
    THEN Returns(notFound("No event with uuid ${eventUUID} exists."))
    ELSE Returns(internalServerError(
            "Unable to delete event. Contact an administrator or retry later."))

\* catch (e) of lines 281-287
EventsDelete_CatchDelete(e) ==
    IF e.type = "EVENT_NOT_EXISTS"
    THEN Returns(notFound("No event with uuid ${eventUUID} exists."))
    ELSE LogsAndReturns(e, internalServerError(
            "Unable to delete event. Contact an administrator or retry later."))

EventsDelete_DeleteRejects ==
    /\ pc = "EventsController.deleteEvent:delete"
    /\ \E e \in EventsErrors :
        /\ Rejected("eventsService.delete", e)
        /\ Settle(EventsDelete_CatchDelete(e))
    /\ UNCHANGED << req, claims, event, clock, found, level, pureVars, storeVars >>

EventsDelete_DeleteResolves ==
    /\ pc = "EventsController.deleteEvent:delete"
    /\ Settle(Returns(noContent))
    /\ UNCHANGED << req, claims, event, clock, found, failure, level, pureVars, storeVars >>

\* The events a listing holds: drafts or not, of either BDE
ListedEvents == {e \in Events : e.bookingStart = None /\ e.bookingEnd = None}

\* What eventsService.findAll may resolve to
EventLists == SeqUpTo(ListedEvents, MaxList)

\* line 316 showing the drafts to every authenticated caller
FilterVisible_AnyAuthenticated(jwtClaims, events) ==
    LET Visible(e) == ~e.isDraft \/ jwtClaims # None
    IN SelectSeq(events, Visible)

\* line 316: events.filter(...), jwtClaims being None when nobody is authenticated
FilterVisible(jwtClaims, events) ==
    LET Visible(e) ==
            ~e.isDraft \/ (jwtClaims # None /\ canManageEvents(Get(jwtClaims), e.bdeUUID))
    IN SelectSeq(events, Visible)

EventsFindAll ==
    /\ pc = "idle"
    /\ \E token \in Tokens :
        req' = Some([method |-> "EventsController.findAll", token |-> token])
    /\ Await("EventsController.findAll:findAll", "eventsService.findAll")
    /\ UNCHANGED << claims, event, clock, found, failure, level, pureVars, storeVars >>

\* catch (e) of lines 302-305
EventsFindAll_CatchFindAll(e) ==
    LogsAndReturns(e, internalServerError("Unable to list events."))

EventsFindAll_FindAllRejects ==
    /\ pc = "EventsController.findAll:findAll"
    /\ \E e \in EventsErrors :
        /\ Rejected("eventsService.findAll", e)
        /\ Settle(EventsFindAll_CatchFindAll(e))
    /\ UNCHANGED << req, claims, event, clock, found, level, pureVars, storeVars >>

EventsFindAll_FindAllResolves ==
    /\ pc = "EventsController.findAll:findAll"
    /\ \E events \in EventLists :
        /\ found' = events
        /\ IF NoToken(Get(req).token)
           THEN Settle(Returns(ok(FilterVisible(None, events))))
           ELSE Await("EventsController.findAll:verifyToken", "authService.verifyToken")
    /\ UNCHANGED << req, claims, event, clock, failure, level, pureVars, storeVars >>

\* catch (_) {} of line 312: the request goes on with jwtClaims = null
EventsFindAll_VerifyTokenRejects ==
    /\ pc = "EventsController.findAll:verifyToken"
    /\ Rejected("authService.verifyToken", TokenError)
    /\ Settle(Returns(ok(FilterVisible(None, found))))
    /\ UNCHANGED << req, claims, event, clock, found, level, pureVars, storeVars >>

EventsFindAll_VerifyTokenResolves ==
    /\ pc = "EventsController.findAll:verifyToken"
    /\ \E jwtClaims \in JWTClaims :
        /\ claims' = Some(jwtClaims)
        /\ Settle(Returns(ok(FilterVisible(Some(jwtClaims), found))))
    /\ UNCHANGED << req, event, clock, found, failure, level, pureVars, storeVars >>

\* --------------------------------------------------------- specification

Init ==
    /\ level = [p \in PurePermissions |-> 0]
    /\ call = [fn |-> "none"]
    /\ ret = None
    /\ IdleCtrl
    /\ IdleStore

Next ==
    \/ BookingsCreate
    \/ BookingsCreate_VerifyTokenRejects
    \/ BookingsCreate_VerifyTokenResolves
    \/ BookingsCreate_FindByUUIDRejects
    \/ BookingsCreate_FindByUUIDResolves
    \/ BookingsCreate_CreateRejects
    \/ BookingsCreate_CreateResolves
    \/ BookingsFindOne
    \/ BookingsFindOne_VerifyTokenRejects
    \/ BookingsFindOne_VerifyTokenResolves
    \/ BookingsFindOne_FindByUUIDRejects
    \/ BookingsFindOne_FindByUUIDResolves
    \/ BookingsFindOne_FindOneRejects
    \/ BookingsFindOne_FindOneResolves
    \/ BookingsFindUserBookings
    \/ BookingsFindUserBookings_VerifyTokenRejects
    \/ BookingsFindUserBookings_VerifyTokenResolves
    \/ BookingsFindUserBookings_FindRejects
    \/ BookingsFindUserBookings_FindResolves
    \/ BookingsFindEventBookings
    \/ BookingsFindEventBookings_VerifyTokenRejects
    \/ BookingsFindEventBookings_VerifyTokenResolves
    \/ BookingsFindEventBookings_FindRejects
    \/ BookingsFindEventBookings_FindResolves
    \/ EventsCreate
    \/ EventsCreate_VerifyTokenRejects
    \/ EventsCreate_VerifyTokenResolves
    \/ EventsCreate_CreateRejects
    \/ EventsCreate_CreateResolves
    \/ EventsFindOne
    \/ EventsFindOne_FindByUUIDRejects
    \/ EventsFindOne_FindByUUIDResolves
    \/ EventsFindOne_VerifyTokenRejects
    \/ EventsFindOne_VerifyTokenResolves
    \/ EventsPatch
    \/ EventsPatch_VerifyTokenRejects
    \/ EventsPatch_VerifyTokenResolves
    \/ EventsPatch_FindByUUIDRejects
    \/ EventsPatch_FindByUUIDResolves
    \/ EventsPatch_UpdateRejects
    \/ EventsPatch_UpdateResolves
    \/ EventsDelete
    \/ EventsDelete_VerifyTokenRejects
    \/ EventsDelete_VerifyTokenResolves
    \/ EventsDelete_FindByUUIDRejects
    \/ EventsDelete_FindByUUIDResolves
    \/ EventsDelete_DeleteRejects
    \/ EventsDelete_DeleteResolves
    \/ EventsFindAll
    \/ EventsFindAll_FindAllRejects
    \/ EventsFindAll_FindAllResolves
    \/ EventsFindAll_VerifyTokenRejects
    \/ EventsFindAll_VerifyTokenResolves

Spec == Init /\ [][Next]_vars

\* A controller method is called, and every promise it awaits settles: a request
\* handler that can go on does go on
FairSpec == Spec /\ WF_vars(Next)

\* ------------------------------- patchEvent and deleteEvent, run concurrently

\* The requests in flight at the same time
Requests == {"r1", "r2"}

\* The event every request of the race names
RacedUUID == "e1"

\* The events the store may hold under that UUID: published, with no booking window
StoredEvents == {e \in ListedEvents : e.eventUUID = RacedUUID /\ ~e.isDraft}

\* The bodies of the patchEvent requests: null, or a valid body naming a BDE
RacedBodies ==
    {None} \cup
    {Some([name |-> "gala", bde |-> b, isDraft |-> "false",
           bookingStart |-> None, bookingEnd |-> None, eventDate |-> None]) : b \in BDEs}

\* The callers: nobody special, a manager of the events of a BDE, a holder of ALL
RacedClaims ==
    {c \in JWTClaims : c.uuid = "u1" /\ c.permissions \in {{}, {"MANAGE_EVENTS"}, {"ALL"}}}

\* A handler that has not been called yet
IdleHandler ==
    [pc |-> "idle", method |-> "", body |-> None, token |-> None, claims |-> None,
     event |-> None, resp |-> << >>, logged |-> << >>]

\* The handler is called with its arguments
Called(method, body, token) ==
    [IdleHandler EXCEPT !.method = method, !.body = body, !.token = token]

\* The handler awaits a call
Awaiting(h, label) == [h EXCEPT !.pc = label]

\* The handler returns what a check or a catch block decided
Responding(h, d) ==
    [h EXCEPT !.pc = "done", !.resp = Append(@, d.response), !.logged = @ \o d.log]

\* eventsService: the errors a call on RacedUUID rejects with, given the store
StoreErrors ==
    {[type |-> "undefined"]}
        \cup (IF store = None THEN {[type |-> "EVENT_NOT_EXISTS"]} ELSE {})

\* eventsService.update and eventsService.delete apply a mutation for a caller on the
\* event the store holds at that moment
Applying(collaborator, jwtClaims) ==
    applied' = Append(applied, [call |-> collaborator, claims |-> jwtClaims,
                                bdeUUID |-> Get(store).bdeUUID])

ConcurrentPatch(r) ==
    /\ handlers[r].pc = "idle"
    /\ \E body \in RacedBodies, token \in Tokens :
        LET h == Called("EventsController.patchEvent", body, token) IN
        handlers' = [handlers EXCEPT ![r] =
            IF NoToken(token)
            THEN Responding(h, Returns(unauthorized("You must be connected.")))
            ELSE Awaiting(h, "EventsController.patchEvent:verifyToken")]
    /\ UNCHANGED << store, applied, level, pureVars, ctrlVars >>

ConcurrentPatch_VerifyTokenRejects(r) ==
    /\ handlers[r].pc = "EventsController.patchEvent:verifyToken"
    /\ handlers' = [handlers EXCEPT ![r] =
            Responding(@, Returns(unauthorized("The given token is invalid.")))]
    /\ UNCHANGED << store, applied, level, pureVars, ctrlVars >>

ConcurrentPatch_VerifyTokenResolves(r) ==
    /\ handlers[r].pc = "EventsController.patchEvent:verifyToken"
    /\ \E jwtClaims \in RacedClaims :
        LET h == [handlers[r] EXCEPT !.claims = Some(jwtClaims)]
            refused == EventsPatch_BodyChecks(RacedUUID, h.body)
        IN handlers' = [handlers EXCEPT ![r] =
            IF IsSet(refused)
            THEN Responding(h, Returns(Get(refused)))
            ELSE Awaiting(h, "EventsController.patchEvent:findByUUID")]
    /\ UNCHANGED << store, applied, level, pureVars, ctrlVars >>

ConcurrentPatch_FindByUUIDRejects(r) ==
    /\ handlers[r].pc = "EventsController.patchEvent:findByUUID"
    /\ \E e \in StoreErrors :
        handlers' = [handlers EXCEPT ![r] = Responding(@, EventsPatch_CatchFindByUUID(e))]
    /\ UNCHANGED << store, applied, level, pureVars, ctrlVars >>

ConcurrentPatch_FindByUUIDResolves(r) ==
    /\ handlers[r].pc = "EventsController.patchEvent:findByUUID"
    /\ IsSet(store)
    /\ LET h == [handlers[r] EXCEPT !.event = store]
           denied == EventsPatch_Checks(Get(h.claims), BuildEvent(RacedUUID, Get(h.body)),
                                        Get(store))
       IN handlers' = [handlers EXCEPT ![r] =
            IF IsSet(denied)
            THEN Responding(h, Returns(Get(denied)))
            ELSE Awaiting(h, "EventsController.patchEvent:update")]
    /\ UNCHANGED << store, applied, level, pureVars, ctrlVars >>

ConcurrentPatch_UpdateRejects(r) ==
    /\ handlers[r].pc = "EventsController.patchEvent:update"
    /\ \E e \in StoreErrors :
        handlers' = [handlers EXCEPT ![r] = Responding(@, EventsPatch_CatchUpdate(e))]
    /\ UNCHANGED << store, applied, level, pureVars, ctrlVars >>

ConcurrentPatch_UpdateResolves(r) ==
    /\ handlers[r].pc = "EventsController.patchEvent:update"
    /\ IsSet(store)
    /\ LET patched == BuildEvent(RacedUUID, Get(handlers[r].body)) IN
        /\ store' = Some(patched)
        /\ handlers' = [handlers EXCEPT ![r] = Responding(@, Returns(ok(Some(patched))))]
    /\ Applying("eventsService.update", Get(handlers[r].claims))
    /\ UNCHANGED << level, pureVars, ctrlVars >>

ConcurrentDelete(r) ==
    /\ handlers[r].pc = "idle"
    /\ \E token \in Tokens :
        LET h == Called("EventsController.deleteEvent", None, token) IN
        handlers' = [handlers EXCEPT ![r] =
            IF NoToken(token)
            THEN Responding(h, Returns(unauthorized("You must be connected.")))
            ELSE Awaiting(h, "EventsController.deleteEvent:verifyToken")]
    /\ UNCHANGED << store, applied, level, pureVars, ctrlVars >>

ConcurrentDelete_VerifyTokenRejects(r) ==
    /\ handlers[r].pc = "EventsController.deleteEvent:verifyToken"
    /\ handlers' = [handlers EXCEPT ![r] =
            Responding(@, Returns(unauthorized("The given token is invalid.")))]
    /\ UNCHANGED << store, applied, level, pureVars, ctrlVars >>

ConcurrentDelete_VerifyTokenResolves(r) ==
    /\ handlers[r].pc = "EventsController.deleteEvent:verifyToken"
    /\ \E jwtClaims \in RacedClaims :
        handlers' = [handlers EXCEPT ![r] =
            Awaiting([@ EXCEPT !.claims = Some(jwtClaims)],
                     "EventsController.deleteEvent:findByUUID")]
    /\ UNCHANGED << store, applied, level, pureVars, ctrlVars >>

ConcurrentDelete_FindByUUIDRejects(r) ==
    /\ handlers[r].pc = "EventsController.deleteEvent:findByUUID"
    /\ \E e \in StoreErrors :
        handlers' = [handlers EXCEPT ![r] = Responding(@, EventsDelete_CatchFindByUUID(e))]
    /\ UNCHANGED << store, applied, level, pureVars, ctrlVars >>

ConcurrentDelete_FindByUUIDResolves(r) ==
    /\ handlers[r].pc = "EventsController.deleteEvent:findByUUID"
    /\ IsSet(store)
    /\ LET h == [handlers[r] EXCEPT !.event = store] IN
        handlers' = [handlers EXCEPT ![r] =
            IF ~canManageEvents(Get(h.claims), Get(store).bdeUUID)
            THEN Responding(h, Returns(forbidden(
                    "You do not have the permission to patch this event.")))
            ELSE Awaiting(h, "EventsController.deleteEvent:delete")]
    /\ UNCHANGED << store, applied, level, pureVars, ctrlVars >>

ConcurrentDelete_DeleteRejects(r) ==
    /\ handlers[r].pc = "EventsController.deleteEvent:delete"
    /\ \E e \in StoreErrors :
        handlers' = [handlers EXCEPT ![r] = Responding(@, EventsDelete_CatchDelete(e))]
    /\ UNCHANGED << store, applied, level, pureVars, ctrlVars >>

ConcurrentDelete_DeleteResolves(r) ==
    /\ handlers[r].pc = "EventsController.deleteEvent:delete"
    /\ IsSet(store)
    /\ store' = None
    /\ handlers' = [handlers EXCEPT ![r] = Responding(@, Returns(noContent))]
    /\ Applying("eventsService.delete", Get(handlers[r].claims))
    /\ UNCHANGED << level, pureVars, ctrlVars >>

\* The store holds the event, and no request has been made yet
ConcurrentInit ==
    /\ level = [p \in PurePermissions |-> 0]
    /\ call = [fn |-> "none"]
    /\ ret = None
    /\ IdleCtrl
    /\ store \in {Some(e) : e \in StoredEvents}
    /\ handlers = [r \in Requests |-> IdleHandler]
    /\ applied = << >>

ConcurrentNext ==
    \E r \in Requests :
        \/ ConcurrentPatch(r)
        \/ ConcurrentPatch_VerifyTokenRejects(r)
        \/ ConcurrentPatch_VerifyTokenResolves(r)
        \/ ConcurrentPatch_FindByUUIDRejects(r)
        \/ ConcurrentPatch_FindByUUIDResolves(r)
        \/ ConcurrentPatch_UpdateRejects(r)
        \/ ConcurrentPatch_UpdateResolves(r)
        \/ ConcurrentDelete(r)
        \/ ConcurrentDelete_VerifyTokenRejects(r)
        \/ ConcurrentDelete_VerifyTokenResolves(r)
        \/ ConcurrentDelete_FindByUUIDRejects(r)
        \/ ConcurrentDelete_FindByUUIDResolves(r)
        \/ ConcurrentDelete_DeleteRejects(r)
        \/ ConcurrentDelete_DeleteResolves(r)

ConcurrentSpec == ConcurrentInit /\ [][ConcurrentNext]_vars

\* ------------------------------------------------- claims on the pure functions

Returned(f) == call.fn = f /\ IsSet(ret)

HoldsAll(user) == "ALL" \in user.permissions

\* C1: whenever the source holds ALL, canManagePermissions returns true if the
\* target does not hold ALL and false if it does, whatever else they hold.
C1_AllManagesAllButAll ==
    (Returned("canManagePermissions") /\ HoldsAll(call.source))
        => Get(ret) = ~HoldsAll(call.target)

\* An ALL-holder of another BDE and of a lower level than its target manages it.
C1_Witness ==
    /\ Returned("canManagePermissions")
    /\ HoldsAll(call.source) /\ ~HoldsAll(call.target)
    /\ "MANAGE_PERMISSIONS" \notin call.source.permissions
    /\ call.source.bdeUUID # call.target.bdeUUID
    /\ findPermissionLevel(call.source) < findPermissionLevel(call.target)
    /\ Get(ret) = TRUE

\* C2 as stated: canManagePermissions returns false whenever the BDEs differ.
C2_Original_FalseAcrossBdes ==
    (Returned("canManagePermissions") /\ call.source.bdeUUID # call.target.bdeUUID)
        => Get(ret) = FALSE

\* C2 amended: canManagePermissions returns false whenever the BDEs differ, unless
\* the source holds ALL and the target does not; a higher level and
\* MANAGE_PERMISSIONS do not help.
C2_FalseAcrossBdesWithoutAllBypass ==
    (/\ Returned("canManagePermissions")
     /\ call.source.bdeUUID # call.target.bdeUUID
     /\ ~(HoldsAll(call.source) /\ ~HoldsAll(call.target)))
        => Get(ret) = FALSE

\* A MANAGE_PERMISSIONS holder of a higher level is denied across BDEs.
C2_Witness ==
    /\ Returned("canManagePermissions")
    /\ call.source.bdeUUID # call.target.bdeUUID
    /\ "MANAGE_PERMISSIONS" \in call.source.permissions
    /\ ~HoldsAll(call.source)
    /\ findPermissionLevel(call.source) > findPermissionLevel(call.target)
    /\ Get(ret) = FALSE

\* C3 as stated: canManagePermissions returns false whenever the levels are equal.
C3_Original_FalseOnEqualLevels ==
    (/\ Returned("canManagePermissions")
     /\ findPermissionLevel(call.source) = findPermissionLevel(call.target))
        => Get(ret) = FALSE

\* C3 amended: canManagePermissions returns false whenever the levels are equal,
\* unless the source holds ALL and the target does not.
C3_FalseOnEqualLevelsWithoutAllBypass ==
    (/\ Returned("canManagePermissions")
     /\ findPermissionLevel(call.source) = findPermissionLevel(call.target)
     /\ ~(HoldsAll(call.source) /\ ~HoldsAll(call.target)))
        => Get(ret) = FALSE

\* A MANAGE_PERMISSIONS holder is denied on a target of its BDE and of its level.
C3_Witness ==
    /\ Returned("canManagePermissions")
    /\ "MANAGE_PERMISSIONS" \in call.source.permissions
    /\ ~HoldsAll(call.source)
    /\ call.source.bdeUUID = call.target.bdeUUID
    /\ findPermissionLevel(call.source) = findPermissionLevel(call.target)
    /\ findPermissionLevel(call.source) > 0
    /\ Get(ret) = FALSE

\* C4: canAddUser always returns a boolean, true exactly when the source holds ALL,
\* or holds ADD_USER and belongs to the target BDE.
C4_CanAddUserExact ==
    Returned("canAddUser")
        => /\ Get(ret) \in BOOLEAN
           /\ Get(ret) = (\/ HoldsAll(call.source)
                          \/ /\ "ADD_USER" \in call.source.permissions
                             /\ call.source.bdeUUID = call.bdeUUID)

\* An ADD_USER holder without ALL is denied for a BDE that is not its own.
C4_Witness ==
    /\ Returned("canAddUser")
    /\ "ADD_USER" \in call.source.permissions
    /\ ~HoldsAll(call.source)
    /\ call.source.bdeUUID # call.bdeUUID
    /\ Get(ret) = FALSE

\* C5: canBookNow is true unless bookingStart is set and after now, or bookingEnd
\* is set and before now; the bounds of the window are bookable.
C5_CanBookNowClosedWindow ==
    Returned("canBookNow")
        => Get(ret) = ~(\/ \E t \in Instants : call.event.bookingStart = Some(t) /\ t > call.now
                        \/ \E t \in Instants : call.event.bookingEnd = Some(t) /\ t < call.now)

\* An event is bookable at the very instant its booking window ends.
C5_Witness ==
    /\ Returned("canBookNow")
    /\ IsSet(call.event.bookingStart)
    /\ call.event.bookingEnd = Some(call.now)
    /\ Get(ret) = TRUE

\* --------------------------------------------------- claims on the controllers

Handling(method) == IsSet(req) /\ Method = method

Invoked(collaborator) == \E i \in DOMAIN calls : calls[i] = collaborator

Responded(status) == pc = "done" /\ Len(resp) = 1 /\ resp[1].status = status

\* C6: in BookingsController.create, when the caller is not the booking's user and
\* canManageBooking is false for the fetched event's BDE, the response is 403 and
\* bookingService.create is not invoked, whatever force and the window are.
C6_OthersBookingForbidden ==
    (/\ Handling("BookingsController.create")
     /\ IsSet(claims) /\ IsSet(event)
     /\ Claims.uuid # BookingBody.user
     /\ ~canManageBooking(Claims, [userUUID |-> BookingBody.user,
                                   bdeUUID |-> Fetched.bdeUUID]))
        => Responded(403) /\ ~Invoked("bookingService.create")

\* A caller who may manage the events of the BDE forces the booking of another user
\* and is refused.
C6_Witness ==
    /\ Handling("BookingsController.create")
    /\ IsSet(claims) /\ IsSet(event)
    /\ Claims.uuid # BookingBody.user
    /\ Claims.permissions = {"MANAGE_EVENTS"}
    /\ Claims.bdeUUID = Fetched.bdeUUID
    /\ Force(BookingBody)
    /\ Responded(403)

\* C7: in BookingsController.create, once canManageBooking has passed,
\* bookingService.create is invoked exactly when force is true and the caller can
\* manage the events of the event's BDE, or force is not true and canBookNow holds
\* at the clock read; otherwise the response is 403.
C7_ForceOrWindow ==
    (/\ Handling("BookingsController.create")
     /\ IsSet(claims) /\ IsSet(event)
     /\ canManageBooking(Claims, [userUUID |-> BookingBody.user,
                                  bdeUUID |-> Fetched.bdeUUID]))
        => /\ Invoked("bookingService.create")
                <=> \/ /\ BookingBody.force = Some("true")
                       /\ canManageEvents(Claims, Fetched.bdeUUID)
                    \/ /\ BookingBody.force # Some("true")
                       /\ IsSet(clock) /\ canBookNow(Fetched, Get(clock))
           /\ ~Invoked("bookingService.create") => Responded(403)

\* A caller without any permission forces its own booking inside the window and is
\* refused.
C7_Witness ==
    /\ Handling("BookingsController.create")
    /\ IsSet(claims) /\ IsSet(event)
    /\ Claims.uuid = BookingBody.user
    /\ Claims.permissions = {}
    /\ BookingBody.force = Some("true")
    /\ \A now \in Instants : canBookNow(Fetched, now)
    /\ Responded(403)
    /\ ~Invoked("bookingService.create")

\* C8: in EventsController.create, an authenticated request with a well-formed body
\* whose bookingEnd is not after its bookingStart is answered 400, whatever the
\* caller's permissions, and eventsService.create is not invoked.
C8_IllOrderedDatesRefused ==
    (/\ Handling("EventsController.create")
     /\ IsSet(claims)
     /\ EVENT_VALIDATOR(Get(req).body)
     /\ IsSet(Get(Get(req).body).bookingStart)
     /\ IsSet(Get(Get(req).body).bookingEnd)
     /\ fromISO(Get(Get(Get(req).body).bookingEnd))
            <= fromISO(Get(Get(Get(req).body).bookingStart)))
        => Responded(400) /\ ~Invoked("eventsService.create")

\* A caller without any permission on the BDE sends dates that denote the same
\* instant, and is answered 400, not 403.
C8_Witness ==
    /\ Handling("EventsController.create")
    /\ IsSet(claims)
    /\ Claims.permissions = {}
    /\ EVENT_VALIDATOR(Get(req).body)
    /\ IsSet(Get(Get(req).body).bookingStart)
    /\ IsSet(Get(Get(req).body).bookingEnd)
    /\ Get(Get(Get(req).body).bookingStart) # Get(Get(Get(req).body).bookingEnd)
    /\ fromISO(Get(Get(Get(req).body).bookingEnd))
            = fromISO(Get(Get(Get(req).body).bookingStart))
    /\ Responded(400)

\* The events of the listing the caller of this state may see, as C9 states it
C9_Visible(e) == ~e.isDraft \/ (IsSet(claims) /\ canManageEvents(Claims, e.bdeUUID))

\* C9: EventsController.findAll never answers 401; when eventsService.findAll has
\* resolved it answers 200 with exactly the listed events that are not drafts or
\* whose BDE the authenticated caller can manage, and a caller with no token or
\* with a token that fails verification receives no draft.
C9_FindAllFiltersDrafts ==
    Handling("EventsController.findAll")
        => /\ \A i \in DOMAIN resp : resp[i].status # 401
           /\ (pc = "done" /\ logged = << >>)
                => /\ Responded(200)
                   /\ resp[1].body = SelectSeq(found, C9_Visible)
                   /\ claims = None
                        => \A i \in DOMAIN resp[1].body : ~resp[1].body[i].isDraft

\* A token that fails verification: the drafts are dropped and the answer is 200.
C9_Witness ==
    /\ Handling("EventsController.findAll")
    /\ Get(req).token = Some("jwt")
    /\ Invoked("authService.verifyToken")
    /\ claims = None
    /\ Responded(200)
    /\ Len(found) = 2 /\ found[1].isDraft /\ ~found[2].isDraft
    /\ resp[1].body = << found[2] >>

PersistenceCalls ==
    {"eventsService.findByUUID", "eventsService.findAll", "eventsService.create",
     "eventsService.update", "eventsService.delete", "bookingService.create",
     "bookingService.findOne", "bookingService.findBookingsForUser",
     "bookingService.findBookingsForEvent"}

InvokedPersistence == \E i \in DOMAIN calls : calls[i] \in PersistenceCalls

\* The methods that validate a request body, and whether the body passes the
\* validator and, for an event, the check of the order of its booking dates
ValidatesBody ==
    Method \in {"BookingsController.create", "EventsController.create",
                "EventsController.patchEvent"}

BodyValid ==
    IF Method = "BookingsController.create"
    THEN BOOKING_VALIDATOR(BookingBody)
    ELSE /\ EVENT_VALIDATOR(Get(req).body)
         /\ areBookingDatesWellOrdered(BuildEvent(NewUUID, Get(Get(req).body)))

\* The two methods that read the persistence layer before they look at the token
FetchesFirst == Method \in {"EventsController.findOne", "EventsController.findAll"}

\* The pipeline: no token is 401 with no collaborator called, verifyToken is the
\* first call, and a body the validator refuses is 400 before anything is fetched
C11_Pipeline ==
    /\ NoToken(Get(req).token) => (Responded(401) /\ calls = << >>)
    /\ calls # << >> => calls[1] = "authService.verifyToken"
    /\ ValidatesBody =>
        /\ (IsSet(claims) /\ ~BodyValid)
                => (Responded(400) /\ calls = << "authService.verifyToken" >>)
        /\ InvokedPersistence => BodyValid

\* C11 as stated: every action of both controllers follows the pipeline.
C11_Original_EveryActionPipelined == IsSet(req) => C11_Pipeline

\* C11 amended: every action but EventsController.findOne and
\* EventsController.findAll answers 401 to a request without a token before any
\* collaborator is called, verifies the token first, and refuses an invalid body
\* with 400 before any persistence call; findOne and findAll call the persistence
\* layer first, findOne answers 401 without a token only for a draft, and findAll
\* never answers 401.
C11_PipelineButEventReads ==
    IsSet(req) =>
        IF ~FetchesFirst THEN C11_Pipeline
        ELSE /\ calls[1] \in PersistenceCalls
             /\ Responded(401) =>
                    /\ Method = "EventsController.findOne"
                    /\ IsSet(event) /\ Fetched.isDraft

\* patchEvent with a verified token and a body the validator refuses: 400, and
\* nothing was fetched.
C11_Witness ==
    /\ Handling("EventsController.patchEvent")
    /\ IsSet(claims)
    /\ ~EVENT_VALIDATOR(Get(req).body)
    /\ Responded(400)
    /\ calls = << "authService.verifyToken" >>

\* The listed bookings the caller of this state can manage, as C12 states it
C12_Manageable(b) ==
    canManageBooking(Claims, [userUUID |-> b.userUUID, bdeUUID |-> b.bdeUUID])

\* The listing call of the persistence layer resolved and the method returned
Listed(collaborator) == pc = "done" /\ Invoked(collaborator) /\ logged = << >>

Anticipated(collaborator) ==
    CASE collaborator = "eventsService.findByUUID" -> {"EVENT_NOT_EXISTS"}
      [] collaborator = "eventsService.create" -> {"BDE_UUID_NOT_EXISTS"}
      [] collaborator = "eventsService.update" -> {"EVENT_NOT_EXISTS", "BDE_UUID_NOT_EXISTS"}
      [] collaborator = "eventsService.delete" -> {"EVENT_NOT_EXISTS"}
      [] collaborator = "bookingService.create"
            -> {"EVENT_NOT_EXISTS", "USER_NOT_EXISTS", "BOOKING_ALREADY_EXISTS"}
      [] collaborator = "bookingService.findOne" -> {"BOOKING_NOT_EXISTS"}
      [] OTHER -> {}

Failure == Get(failure)

TokenFailed == IsSet(failure) /\ Failure.call = "authService.verifyToken"

PersistenceFailed == IsSet(failure) /\ Failure.call \in PersistenceCalls

UnexpectedFailure ==
    PersistenceFailed /\ Failure.error.type \notin Anticipated(Failure.call)

\* What C13 says of every action but for the status a token failure leads to
C13_ServerErrors ==
    /\ IsSet(failure) => (pc = "done" /\ Len(resp) = 1)
    /\ (\E i \in DOMAIN resp : resp[i].status = 500) <=> UnexpectedFailure
    /\ logged = IF UnexpectedFailure THEN << Failure.error >> ELSE << >>
    /\ (PersistenceFailed /\ ~UnexpectedFailure) => resp[1].status \in {400, 404}

\* C13 as stated: 500 exactly on an unexpected persistence failure, logged once with
\* the error caught; every anticipated domain error and every token failure is
\* answered 4xx and not logged.
C13_Original_TokenFailuresAre4xx ==
    /\ C13_ServerErrors
    /\ TokenFailed => resp[1].status \in 400 .. 499

\* C13 amended: 500 exactly on an unexpected persistence failure, logged once with
\* the error caught; every anticipated domain error is answered 400 or 404 and not
\* logged; a token failure is not logged and is answered 401, except in
\* EventsController.findAll, which ignores it and answers 200.
C13_ServerErrorsButFindAllToken ==
    /\ C13_ServerErrors
    /\ TokenFailed =>
            resp[1].status = IF Method = "EventsController.findAll" THEN 200 ELSE 401

\* bookingService.findOne fails with a domain error that step does not anticipate:
\* 500, and the error is logged.
C13_Witness ==
    /\ Handling("BookingsController.findOne")
    /\ PersistenceFailed
    /\ Failure.call = "bookingService.findOne"
    /\ Failure.error.type = "EVENT_NOT_EXISTS"
    /\ Responded(500)
    /\ logged = << Failure.error >>

\* The bde of the body of a create or patchEvent request
BodyBde == Get(Get(req).body).bde

\* The caller of a patchEvent request can manage the fetched event's BDE and, when
\* the body names another BDE, that one too
C14_MayPatch ==
    /\ canManageEvents(Claims, Fetched.bdeUUID)
    /\ BodyBde # Fetched.bdeUUID => canManageEvents(Claims, BodyBde)

\* C14: eventsService.create is invoked only if the caller can manage the body's
\* BDE, eventsService.delete only if the caller can manage the fetched event's BDE,
\* eventsService.update only if the caller can manage the fetched event's BDE and,
\* when it differs, the body's BDE; a request that reaches the authorization check
\* without these is answered 403 and invokes no mutation.
C14_MutationsAuthorized ==
    /\ (Handling("EventsController.create") /\ IsSet(claims) /\ BodyValid)
        => IF canManageEvents(Claims, BodyBde)
           THEN Invoked("eventsService.create")
           ELSE Responded(403) /\ ~Invoked("eventsService.create")
    /\ (Handling("EventsController.deleteEvent") /\ IsSet(event))
        => IF canManageEvents(Claims, Fetched.bdeUUID)
           THEN Invoked("eventsService.delete")
           ELSE Responded(403) /\ ~Invoked("eventsService.delete")
    /\ (Handling("EventsController.patchEvent") /\ IsSet(event))
        => IF C14_MayPatch
           THEN Invoked("eventsService.update")
           ELSE Responded(403) /\ ~Invoked("eventsService.update")
    /\ Invoked("eventsService.create")
        => (IsSet(claims) /\ canManageEvents(Claims, BodyBde))
    /\ Invoked("eventsService.delete")
        => (IsSet(claims) /\ IsSet(event) /\ canManageEvents(Claims, Fetched.bdeUUID))
    /\ Invoked("eventsService.update")
        => (IsSet(claims) /\ IsSet(event) /\ C14_MayPatch)

\* A caller who manages the events of the fetched event's BDE only tries to move the
\* event to another BDE: 403, and eventsService.update is not invoked.
C14_Witness ==
    /\ Handling("EventsController.patchEvent")
    /\ IsSet(event)
    /\ Claims.permissions = {"MANAGE_EVENTS"}
    /\ Claims.bdeUUID = Fetched.bdeUUID
    /\ BodyBde # Fetched.bdeUUID
    /\ Responded(403)
    /\ ~Invoked("eventsService.update")

\* C15: whenever eventsService.update or eventsService.delete is applied for a
\* caller, that caller can manage the BDE the stored event belongs to at that moment,
\* however the concurrent patchEvent and deleteEvent requests interleave.
C15_AuthorizedWhenApplied ==
    \A i \in DOMAIN applied : canManageEvents(applied[i].claims, applied[i].bdeUUID)

====
